---- MODULE Spec2Model ----
(***************************************************************************)
(* Model of the HC32F46x Arduino core's digital pin API                    *)
(* (cores/arduino/wiring_digital.cpp) and ADC driver                       *)
(* (cores/arduino/drivers/adc/adc.cpp).                                    *)
(*                                                                         *)
(* The firmware is single-threaded: one API call runs at a time.  The only *)
(* concurrent agent is the hardware (ADC + DMA), which finishes a started  *)
(* conversion and raises the DMA block-transfer-complete flag.             *)
(*                                                                         *)
(* Code that is not part of the two source files (the vendor peripheral    *)
(* library, core_debug.h, the GPIO driver, the board's PIN_MAP, yield())   *)
(* is modelled by its documented behaviour and marked as such.             *)
(***************************************************************************)
EXTENDS Integers, Sequences, FiniteSets, TLC

\* ------------------------------------------------------------------ bounds

\* number of GPIO pins of the board (pins 0 .. BOARD_NR_GPIO_PINS-1 are valid)
BOARD_NR_GPIO_PINS == 2

\* device->adc.channel_count (channels 0 .. ChannelCount-1 are valid)
ChannelCount == 2

\* ------------------------------------------------------------- value sets

NULL == "NULL"
\* marks a pin without ADC channel (uint8_t)
ADC_PIN_INVALID == 255

\* the ADC devices (ADC_REG_TO_NAME)
Devices == {"ADC1"}

\* pin numbers a caller may pass: every valid pin and one invalid pin
PinArgs == 0 .. BOARD_NR_GPIO_PINS

\* channel ids a caller may pass: every valid channel and one invalid channel
ChannelArgs == 0 .. ChannelCount

\* abstraction of the 16 bit conversion results
SAMPLES == {0, 1}

\* sample times a caller may pass (uint8_t; 0 is rejected by an assertion)
SAMPLE_TIMES == {0, 1}

\* pin modes that pinMode accepts
ValidModes == {"INPUT", "INPUT_PULLUP", "INPUT_ANALOG", "OUTPUT"}

\* mode arguments a caller may pass: the accepted modes and one other value
ModeArgs == ValidModes \cup {"MODE_OTHER"}

\* values getPinMode may report
ReportedModes == ValidModes \cup {"INPUT_FLOATING"}

\* board pin map: pin 0 is analog capable (ADC1, channel 0), the others are not
PIN_MAP[p \in 0 .. (BOARD_NR_GPIO_PINS - 1)] ==
    IF p = 0
    THEN [adc_device |-> "ADC1", adc_channel |-> 0]
    ELSE [adc_device |-> NULL, adc_channel |-> ADC_PIN_INVALID]

VARIABLES
    debug,     \* build flavour: TRUE iff assertions are compiled in (__CORE_DEBUG)
    halted,    \* TRUE once a failed assertion has stopped the firmware
    pc,        \* position of the (single) thread: idle, or inside the await loop
    gpio,      \* per pin: the port configuration registers and the output latch
    adc,       \* per device: state.initialized, state.conversion_results, ADC/DMA registers
    hist,      \* per device: history of the completion flag (who set it, relative to calls)
    call       \* the last API call: its name, arguments, return value, peripheral calls

vars == <<debug, halted, pc, gpio, adc, hist, call>>

\* ------------------------------------------- debug assertions (core_debug.h)

\* CORE_ASSERT(expression, message): in a debug build a false expression stops
\* the firmware (panic); in a release build the check is compiled out
AssertFails(expression) == debug /\ ~expression

\* ASSERT_CHANNEL_ID(device, channel): channel >= 0 && channel < channel_count
ASSERT_CHANNEL_ID(channel) == channel >= 0 /\ channel < ChannelCount

\* ASSERT_INITIALIZED(device, function_name)
ASSERT_INITIALIZED(h) == h.initialized

\* ASSERT_GPIO_PIN_VALID(pin, function_name)
ASSERT_GPIO_PIN_VALID(dwPin) == dwPin < BOARD_NR_GPIO_PINS

\* ------------------------------------- vendor peripheral library (ADC, DMA)
\* h is the record of one device: the driver's state struct and the
\* registers of its ADC unit and DMA channel

\* ADC_Init + clock enable + ADC_TriggerSrcCmd: the ADC unit is configured
ADC_Init(h) == [h EXCEPT !.periphInits = @ + 1]

\* DMA_InitChannel, DMA_Cmd, DMA_ChannelCmd, DMA_SetTriggerSrc: from now on the
\* end of a conversion triggers the block transfer into conversion_results
DMA_InitChannel(h) == [h EXCEPT !.dmaEnabled = TRUE]

\* DMA_ClearIrqFlag(.., BlkTrnCpltIrq)
DMA_ClearIrqFlag(h) == [h EXCEPT !.flag = FALSE]

\* DMA_GetIrqFlag(.., BlkTrnCpltIrq) == Set
DMA_GetIrqFlag(h) == h.flag

\* ADC_AddAdcChannel / ADC_DelAdcChannel with the mask (1 << channel)
ADC_AddAdcChannel(h, channel) == [h EXCEPT !.channels = @ \cup {channel}]

ADC_DelAdcChannel(h, channel) == [h EXCEPT !.channels = @ \ {channel}]

\* ADC_StartConvert: software trigger
ADC_StartConvert(h) == [h EXCEPT !.converting = TRUE]

\* result of a driver function: the device afterwards, the peripheral calls it
\* made (in order), whether an assertion stopped it, and its return value
Result(h, calls, ret) == [h |-> h, calls |-> calls, panic |-> FALSE, ret |-> ret]

Panic(h) == [h |-> h, calls |-> <<>>, panic |-> TRUE, ret |-> "PANIC"]

\* ------------------------------------------------------------ adc.cpp

adc_adc_init(h) == ADC_Init(h)

adc_dma_init(h) == DMA_ClearIrqFlag(DMA_InitChannel(h))

\* variant: adc_device_init without the "already initialized" early return
adc_device_init_twice(h) ==
    Result([adc_dma_init(adc_adc_init(h)) EXCEPT !.initialized = TRUE],
           <<"ADC_Init", "DMA_InitChannel", "DMA_ClearIrqFlag">>, "void")

adc_device_init(h) ==
    IF h.initialized
    THEN Result(h, <<>>, "void")
    ELSE Result([adc_dma_init(adc_adc_init(h)) EXCEPT !.initialized = TRUE],
                <<"ADC_Init", "DMA_InitChannel", "DMA_ClearIrqFlag">>, "void")

\* variant: adc_enable_channel without its assertions
adc_enable_channel_unchecked(h, adc_channel, sample_time) ==
    Result(ADC_AddAdcChannel(h, adc_channel), <<"ADC_AddAdcChannel">>, "void")

adc_enable_channel(h, adc_channel, sample_time) ==
    IF AssertFails(ASSERT_INITIALIZED(h)) THEN Panic(h)
    ELSE IF AssertFails(ASSERT_CHANNEL_ID(adc_channel)) THEN Panic(h)
    ELSE IF AssertFails(sample_time > 0) THEN Panic(h)
    ELSE Result(ADC_AddAdcChannel(h, adc_channel), <<"ADC_AddAdcChannel">>, "void")

adc_disable_channel(h, adc_channel) ==
    IF ~h.initialized
    THEN Result(h, <<>>, "void")
    ELSE IF AssertFails(ASSERT_CHANNEL_ID(adc_channel)) THEN Panic(h)
    ELSE Result(ADC_DelAdcChannel(h, adc_channel), <<"ADC_DelAdcChannel">>, "void")

\* variant: adc_start_conversion that does not clear the completion flag
adc_start_conversion_no_clear(h) ==
    IF AssertFails(ASSERT_INITIALIZED(h)) THEN Panic(h)
    ELSE Result(ADC_StartConvert(h), <<"ADC_StartConvert">>, "void")

adc_start_conversion(h) ==
    IF AssertFails(ASSERT_INITIALIZED(h)) THEN Panic(h)
    ELSE Result(ADC_StartConvert(DMA_ClearIrqFlag(h)),
                <<"DMA_ClearIrqFlag", "ADC_StartConvert">>, "void")

\* variant: adc_conversion_read_result without ASSERT_CHANNEL_ID
adc_conversion_read_result_unchecked(h, adc_channel, v) ==
    IF AssertFails(ASSERT_INITIALIZED(h)) THEN Panic(h)
    ELSE Result(DMA_ClearIrqFlag(h), <<"DMA_ClearIrqFlag", "conversion_results">>, ToString(v))

adc_is_conversion_completed(h) ==
    IF AssertFails(ASSERT_INITIALIZED(h)) THEN Panic(h)
    ELSE Result(h, <<"DMA_GetIrqFlag">>, IF DMA_GetIrqFlag(h) THEN "true" ELSE "false")

\* the values a read of conversion_results[adc_channel] can produce: the
\* element, or anything when the index is outside the array
ReadResults(h, adc_channel) ==
    IF adc_channel \in DOMAIN h.conversion_results
    THEN {h.conversion_results[adc_channel]}
    ELSE SAMPLES

\* adc_conversion_read_result, given the value v the array read produced
adc_conversion_read_result(h, adc_channel, v) ==
    IF AssertFails(ASSERT_INITIALIZED(h)) THEN Panic(h)
    ELSE IF AssertFails(ASSERT_CHANNEL_ID(adc_channel)) THEN Panic(h)
    ELSE Result(DMA_ClearIrqFlag(h), <<"DMA_ClearIrqFlag", "conversion_results">>, ToString(v))

\* ------------------------------------------------ GPIO driver (gpio.h)

PinModes == {"Pin_Mode_In", "Pin_Mode_Out", "Pin_Mode_Ana"}

FunctionalStates == {"Disable", "Enable"}

\* the values an stc_port_init_t (enPinMode, enPullUp) can hold
PortConfigs == [enPinMode : PinModes, enPullUp : FunctionalStates]

\* GPIO_Init(pin, &pinConf): write the configuration to the pin's registers
GPIO_Init(g, pinConf) ==
    [g EXCEPT !.enPinMode = pinConf.enPinMode, !.enPullUp = pinConf.enPullUp]

\* GPIO_GetConfig(pin, &pinConf): read the configuration back
GPIO_GetConfig(g) == [enPinMode |-> g.enPinMode, enPullUp |-> g.enPullUp]

\* GPIO_SetBits / GPIO_ResetBits: the output latch
GPIO_SetBits(g) == [g EXCEPT !.out = "HIGH"]

GPIO_ResetBits(g) == [g EXCEPT !.out = "LOW"]

\* GPIO_GetBit(pin): an output pin reads its latch, any other pin reads the
\* level applied from outside
GPIO_GetBit(g, level) == IF g.enPinMode = "Pin_Mode_Out" THEN g.out = "HIGH" ELSE level = "HIGH"

\* ------------------------------------------------------ wiring_digital.cpp

\* variant: the local pinConf is used as it is, not zeroed
MEM_ZERO_STRUCT_skipped(pinConf) == pinConf

\* MEM_ZERO_STRUCT(pinConf): all fields zero (Pin_Mode_In = 0, Disable = 0)

MEM_ZERO_STRUCT(pinConf) == [enPinMode |-> "Pin_Mode_In", enPullUp |-> "Disable"]

\* pinMode, "if pin has ADC channel, configure ADC according to pin mode"
pinMode_adc(h, adc_channel, dwMode) ==
    IF dwMode = "INPUT_ANALOG"
    THEN LET r1 == adc_device_init(h)
             r2 == adc_enable_channel(r1.h, adc_channel, 1)
         IN  [r2 EXCEPT !.calls = r1.calls \o r2.calls]
    ELSE adc_disable_channel(h, adc_channel)

\* variant: the switch of pinMode with INPUT as the default branch
pinMode_conf_default_input(dwMode, pinConf) ==
    LET z == MEM_ZERO_STRUCT(pinConf)
    IN  CASE dwMode = "INPUT_PULLUP" ->
               [ok |-> TRUE, pinConf |-> [z EXCEPT !.enPinMode = "Pin_Mode_In", !.enPullUp = "Enable"]]
          [] dwMode = "INPUT_ANALOG" ->
               [ok |-> TRUE, pinConf |-> [z EXCEPT !.enPinMode = "Pin_Mode_Ana"]]
          [] dwMode = "OUTPUT" ->
               [ok |-> TRUE, pinConf |-> [z EXCEPT !.enPinMode = "Pin_Mode_Out"]]
          [] OTHER ->
               [ok |-> TRUE, pinConf |-> [z EXCEPT !.enPinMode = "Pin_Mode_In"]]

\* pinMode, "build pin configuration": the switch over dwMode, applied to the
\* uninitialised local pinConf; ok is FALSE in the default branch
pinMode_conf(dwMode, pinConf) ==
    LET z == MEM_ZERO_STRUCT(pinConf)
    IN  CASE dwMode = "INPUT" ->
               [ok |-> TRUE, pinConf |-> [z EXCEPT !.enPinMode = "Pin_Mode_In"]]
          [] dwMode = "INPUT_PULLUP" ->
               [ok |-> TRUE, pinConf |-> [z EXCEPT !.enPinMode = "Pin_Mode_In", !.enPullUp = "Enable"]]
          [] dwMode = "INPUT_ANALOG" ->
               [ok |-> TRUE, pinConf |-> [z EXCEPT !.enPinMode = "Pin_Mode_Ana"]]
          [] dwMode = "OUTPUT" ->
               [ok |-> TRUE, pinConf |-> [z EXCEPT !.enPinMode = "Pin_Mode_Out"]]
          [] OTHER ->
               [ok |-> FALSE, pinConf |-> z]

\* getPinMode, the switch over the configuration read back
getPinMode_switch(pinConf) ==
    CASE pinConf.enPinMode = "Pin_Mode_Out" -> "OUTPUT"
      [] pinConf.enPinMode = "Pin_Mode_In"  ->
            IF pinConf.enPullUp = "Enable" THEN "INPUT_PULLUP" ELSE "INPUT"
      [] pinConf.enPinMode = "Pin_Mode_Ana" -> "INPUT_ANALOG"
      [] OTHER                              -> "INPUT_FLOATING"

\* --------------------------------------------------------------- state

IdlePc == [op |-> "idle", dev |-> NULL]

Ready == ~halted /\ pc = IdlePc

Call(op, a, b, ret, periph) == [op |-> op, a |-> a, b |-> b, ret |-> ret, periph |-> periph]

\* a failed pin assertion: the firmware stops, nothing else changes
Halt(op, a, b) ==
    /\ halted' = TRUE
    /\ call' = Call(op, a, b, "PANIC", <<>>)
    /\ UNCHANGED <<debug, pc, gpio, adc, hist>>

\* an ADC driver call on device d with result r has run
AdcCall(op, d, b, r) ==
    /\ adc' = [adc EXCEPT ![d] = r.h]
    /\ halted' = r.panic
    /\ call' = Call(op, d, b, r.ret, r.calls)

InitDevice ==
    [initialized |-> FALSE,
     conversion_results |-> [c \in 0 .. (ChannelCount - 1) |-> 0],
     channels |-> {},
     flag |-> FALSE,
     converting |-> FALSE,
     dmaEnabled |-> FALSE,
     periphInits |-> 0]

InitHist ==
    [overlapped |-> FALSE,
     flagFresh |-> FALSE,
     convAfterRead |-> FALSE,
     flagAfterRead |-> FALSE,
     readInFlight |-> FALSE]

Init ==
    /\ debug \in BOOLEAN
    /\ halted = FALSE
    /\ pc = IdlePc
    /\ gpio = [p \in 0 .. (BOARD_NR_GPIO_PINS - 1) |->
                 [enPinMode |-> "Pin_Mode_In", enPullUp |-> "Disable", out |-> "LOW"]]
    /\ adc = [d \in Devices |-> InitDevice]
    /\ hist = [d \in Devices |-> InitHist]
    /\ call = Call("none", NULL, NULL, "void", <<>>)

\* History of the completion flag, kept beside the device state:
\*   overlapped     a conversion was started while another was still in flight
\*   flagFresh      the flag was raised after the latest adc_start_conversion
\*   convAfterRead  the conversion in flight was started after the latest read
\*   flagAfterRead  the flag was raised by a conversion started after the latest read
\*   readInFlight   the latest adc_conversion_read_result ran during a conversion
Hist_start(hs, h) ==
    [hs EXCEPT !.overlapped = @ \/ h.converting,
               !.flagFresh = FALSE,
               !.convAfterRead = IF h.converting THEN @ ELSE TRUE]

Hist_read(hs, h) ==
    [hs EXCEPT !.convAfterRead = FALSE,
               !.flagAfterRead = FALSE,
               !.readInFlight = h.converting]

Hist_complete(hs) ==
    [hs EXCEPT !.flagFresh = TRUE,
               !.flagAfterRead = hs.convAfterRead]

\* ------------------------------------------------- the pin API (actions)

pinMode(dwPin, dwMode, pinConf) ==
    /\ Ready
    /\ IF AssertFails(ASSERT_GPIO_PIN_VALID(dwPin))
       THEN Halt("pinMode", dwPin, dwMode)
       ELSE IF dwPin >= BOARD_NR_GPIO_PINS
       THEN /\ call' = Call("pinMode", dwPin, dwMode, "void", <<>>)
            /\ UNCHANGED <<debug, halted, pc, gpio, adc, hist>>
       ELSE LET adc_device == PIN_MAP[dwPin].adc_device
                adc_channel == PIN_MAP[dwPin].adc_channel
                isAdcPin == adc_device # NULL /\ adc_channel # ADC_PIN_INVALID
                r == IF isAdcPin
                     THEN pinMode_adc(adc[adc_device], adc_channel, dwMode)
                     ELSE Result(NULL, <<>>, "void")
                c == pinMode_conf(dwMode, pinConf)
            IN  /\ adc' = IF isAdcPin THEN [adc EXCEPT ![adc_device] = r.h] ELSE adc
                /\ IF r.panic
                   THEN /\ halted' = TRUE
                        /\ call' = Call("pinMode", dwPin, dwMode, "PANIC", r.calls)
                        /\ gpio' = gpio
                   ELSE IF ~c.ok
                   THEN /\ halted' = debug
                        /\ call' = Call("pinMode", dwPin, dwMode,
                                        IF debug THEN "PANIC" ELSE "void", r.calls)
                        /\ gpio' = gpio
                   ELSE /\ halted' = FALSE
                        /\ call' = Call("pinMode", dwPin, dwMode, "void",
                                        r.calls \o <<"GPIO_SetFunc", "GPIO_Init">>)
                        /\ gpio' = [gpio EXCEPT ![dwPin] = GPIO_Init(@, c.pinConf)]
                /\ UNCHANGED <<debug, pc, hist>>

getPinMode(dwPin) ==
    /\ Ready
    /\ IF AssertFails(ASSERT_GPIO_PIN_VALID(dwPin))
       THEN Halt("getPinMode", dwPin, NULL)
       ELSE /\ call' = IF dwPin >= BOARD_NR_GPIO_PINS
                       THEN Call("getPinMode", dwPin, NULL, "INPUT_FLOATING", <<>>)
                       ELSE Call("getPinMode", dwPin, NULL,
                                 getPinMode_switch(GPIO_GetConfig(gpio[dwPin])),
                                 <<"GPIO_GetConfig">>)
            /\ UNCHANGED <<debug, halted, pc, gpio, adc, hist>>

digitalWrite(dwPin, dwVal) ==
    /\ Ready
    /\ IF AssertFails(ASSERT_GPIO_PIN_VALID(dwPin))
       THEN Halt("digitalWrite", dwPin, dwVal)
       ELSE IF dwPin >= BOARD_NR_GPIO_PINS
       THEN /\ call' = Call("digitalWrite", dwPin, dwVal, "void", <<>>)
            /\ UNCHANGED <<debug, halted, pc, gpio, adc, hist>>
       ELSE /\ gpio' = [gpio EXCEPT ![dwPin] =
                          IF dwVal = "HIGH" THEN GPIO_SetBits(@) ELSE GPIO_ResetBits(@)]
            /\ call' = Call("digitalWrite", dwPin, dwVal, "void",
                            IF dwVal = "HIGH" THEN <<"GPIO_SetBits">> ELSE <<"GPIO_ResetBits">>)
            /\ UNCHANGED <<debug, halted, pc, adc, hist>>

\* variant: digitalRead without the early return for pins >= BOARD_NR_GPIO_PINS
\* (the read beyond the pin table yields any level)
digitalRead_no_range_check(ulPin, level) ==
    /\ Ready
    /\ IF AssertFails(ASSERT_GPIO_PIN_VALID(ulPin))
       THEN Halt("digitalRead", ulPin, NULL)
       ELSE /\ call' = Call("digitalRead", ulPin, NULL,
                            IF ulPin \in DOMAIN gpio
                            THEN IF GPIO_GetBit(gpio[ulPin], level) THEN "HIGH" ELSE "LOW"
                            ELSE level,
                            <<"GPIO_GetBit">>)
            /\ UNCHANGED <<debug, halted, pc, gpio, adc, hist>>

digitalRead(ulPin, level) ==
    /\ Ready
    /\ IF AssertFails(ASSERT_GPIO_PIN_VALID(ulPin))
       THEN Halt("digitalRead", ulPin, NULL)
       ELSE /\ call' = IF ulPin >= BOARD_NR_GPIO_PINS
                       THEN Call("digitalRead", ulPin, NULL, "LOW", <<>>)
                       ELSE Call("digitalRead", ulPin, NULL,
                                 IF GPIO_GetBit(gpio[ulPin], level) THEN "HIGH" ELSE "LOW",
                                 <<"GPIO_GetBit">>)
            /\ UNCHANGED <<debug, halted, pc, gpio, adc, hist>>

\* ----------------------------------------------- the ADC API (actions)

Call_adc_device_init(d) ==
    /\ Ready
    /\ AdcCall("adc_device_init", d, NULL, adc_device_init(adc[d]))
    /\ UNCHANGED <<debug, pc, gpio, hist>>

Call_adc_enable_channel(d, adc_channel, sample_time) ==
    /\ Ready
    /\ AdcCall("adc_enable_channel", d, adc_channel,
               adc_enable_channel(adc[d], adc_channel, sample_time))
    /\ UNCHANGED <<debug, pc, gpio, hist>>

Call_adc_disable_channel(d, adc_channel) ==
    /\ Ready
    /\ AdcCall("adc_disable_channel", d, adc_channel,
               adc_disable_channel(adc[d], adc_channel))
    /\ UNCHANGED <<debug, pc, gpio, hist>>

Call_adc_start_conversion(d) ==
    /\ Ready
    /\ LET r == adc_start_conversion(adc[d])
       IN  /\ AdcCall("adc_start_conversion", d, NULL, r)
           /\ hist' = IF r.panic THEN hist
                      ELSE [hist EXCEPT ![d] = Hist_start(@, adc[d])]
    /\ UNCHANGED <<debug, pc, gpio>>

Call_adc_is_conversion_completed(d) ==
    /\ Ready
    /\ AdcCall("adc_is_conversion_completed", d, NULL, adc_is_conversion_completed(adc[d]))
    /\ UNCHANGED <<debug, pc, gpio, hist>>

Call_adc_conversion_read_result(d, adc_channel, v) ==
    /\ Ready
    /\ v \in ReadResults(adc[d], adc_channel)
    /\ LET r == adc_conversion_read_result(adc[d], adc_channel, v)
       IN  /\ AdcCall("adc_conversion_read_result", d, adc_channel, r)
           /\ hist' = IF r.panic THEN hist ELSE [hist EXCEPT ![d] = Hist_read(@, adc[d])]
    /\ UNCHANGED <<debug, pc, gpio>>

\* variant: the loop body is never entered (the call returns at once)
await_loop_never(h) == FALSE

\* variant: the loop condition ignores the flag (the call never returns)
await_loop_forever(h) == TRUE

\* adc_await_conversion_completed: the loop condition, !adc_is_conversion_completed

await_loop(h) == adc_is_conversion_completed(h).ret # "true"

\* adc_await_conversion_completed is entered; the loop runs in AwaitStep
Call_adc_await_conversion_completed(d) ==
    /\ Ready
    /\ IF AssertFails(ASSERT_INITIALIZED(adc[d]))
       THEN /\ halted' = TRUE
            /\ call' = Call("adc_await_conversion_completed", d, NULL, "PANIC", <<>>)
            /\ pc' = pc
       ELSE /\ halted' = FALSE
            /\ call' = Call("adc_await_conversion_completed", d, NULL, "pending", <<>>)
            /\ pc' = [op |-> "await", dev |-> d]
    /\ UNCHANGED <<debug, gpio, adc, hist>>

\* one evaluation of the loop condition: return, or yield() and stay
AwaitStep(d) ==
    /\ ~halted
    /\ pc = [op |-> "await", dev |-> d]
    /\ IF adc_is_conversion_completed(adc[d]).panic
       THEN /\ halted' = TRUE
            /\ call' = [call EXCEPT !.ret = "PANIC"]
            /\ pc' = pc
       ELSE IF await_loop(adc[d])
       THEN /\ halted' = FALSE
            /\ call' = [call EXCEPT !.periph = <<"DMA_GetIrqFlag", "yield">>]
            /\ pc' = pc
       ELSE /\ halted' = FALSE
            /\ call' = [call EXCEPT !.ret = "void", !.periph = @ \o <<"DMA_GetIrqFlag">>]
            /\ pc' = IdlePc
    /\ UNCHANGED <<debug, gpio, adc, hist>>

\* ------------------------------------------------------------ hardware

\* the ADC finishes the conversion; with the DMA channel set up, the end of
\* conversion event moves DR0..DRn to conversion_results and the block
\* transfer complete flag is raised
HwComplete(d, results) ==
    /\ adc[d].converting
    /\ IF adc[d].dmaEnabled
       THEN /\ adc' = [adc EXCEPT ![d].converting = FALSE,
                                  ![d].flag = TRUE,
                                  ![d].conversion_results = results]
            /\ hist' = [hist EXCEPT ![d] = Hist_complete(@)]
       ELSE /\ adc' = [adc EXCEPT ![d].converting = FALSE]
            /\ hist' = hist
    /\ UNCHANGED <<debug, halted, pc, gpio, call>>

\* ------------------------------------------------------- specification

PinApi ==
    \/ \E p \in PinArgs, m \in ModeArgs, c \in PortConfigs : pinMode(p, m, c)
    \/ \E p \in PinArgs : getPinMode(p)
    \/ \E p \in PinArgs, v \in {"LOW", "HIGH"} : digitalWrite(p, v)
    \/ \E p \in PinArgs, l \in {"LOW", "HIGH"} : digitalRead(p, l)

AdcApi ==
    \/ \E d \in Devices : Call_adc_device_init(d)
    \/ \E d \in Devices, c \in ChannelArgs, t \in SAMPLE_TIMES : Call_adc_enable_channel(d, c, t)
    \/ \E d \in Devices, c \in ChannelArgs : Call_adc_disable_channel(d, c)
    \/ \E d \in Devices : Call_adc_start_conversion(d)
    \/ \E d \in Devices : Call_adc_is_conversion_completed(d)
    \/ \E d \in Devices : Call_adc_await_conversion_completed(d)
    \/ \E d \in Devices, c \in ChannelArgs, v \in SAMPLES : Call_adc_conversion_read_result(d, c, v)

Await == \E d \in Devices : AwaitStep(d)

Hardware ==
    \E d \in Devices, r \in [0 .. (ChannelCount - 1) -> SAMPLES] : HwComplete(d, r)

\* pinMode on the analog capable pins: the pin calls that reach the ADC driver
AdcPins == {p \in 0 .. (BOARD_NR_GPIO_PINS - 1) : PIN_MAP[p].adc_device # NULL}

\* what the uninitialised local pinConf of pinMode holds here
StackGarbage == [enPinMode |-> "Pin_Mode_Ana", enPullUp |-> "Enable"]

AdcPinApi == \E p \in AdcPins, m \in ModeArgs : pinMode(p, m, StackGarbage)

\* the ADC driver, driven through its own API and through pinMode, and the hardware
Next == AdcApi \/ AdcPinApi \/ Await \/ Hardware

Spec == Init /\ [][Next]_vars

\* the digital pin API alone
PinSpec == Init /\ [][PinApi]_vars

\* the hardware finishes every started conversion, and the thread keeps running
LiveSpec == Spec /\ WF_vars(Hardware) /\ WF_vars(Await)

\* ================================================================ claims

ValidPins == 0 .. (BOARD_NR_GPIO_PINS - 1)

InvalidPinArgs == PinArgs \ ValidPins

InvalidChannelArgs == {c \in ChannelArgs : ~(c < ChannelCount)}

AwaitPc(d) == [op |-> "await", dev |-> d]

\* what only the firmware writes: the driver's initialized flag, the enabled
\* channels, the peripheral set-up, the pin registers
SoftwareState == <<gpio, [d \in Devices |-> <<adc[d].initialized, adc[d].channels,
                                             adc[d].dmaEnabled, adc[d].periphInits>>]>>

\* C1: adc_await_conversion_completed on an initialized device returns only
\* when the DMA block-transfer-complete flag is set (adc_is_conversion_completed
\* would return true at that moment); while the flag is clear it stays in the
\* loop, calls only yield() and changes nothing (only the hardware moves).
C1_AwaitReturnsOnlyWhenCompleted ==
    [][\A d \in Devices :
         (pc = AwaitPc(d) /\ adc[d].initialized) =>
            /\ (pc' # pc =>
                  /\ pc' = IdlePc
                  /\ adc[d].flag
                  /\ adc' = adc
                  /\ adc_is_conversion_completed(adc'[d]).ret = "true"
                  /\ call'.ret = "void")
            /\ (~adc[d].flag =>
                  /\ pc' = pc
                  /\ ~halted'
                  /\ SoftwareState' = SoftwareState
                  /\ (call' # call =>
                        /\ adc' = adc
                        /\ hist' = hist
                        /\ call'.periph = <<"DMA_GetIrqFlag", "yield">>))
      ]_vars

\* C1 witness: the call waited (yielded) and then returned with the flag set
C1_Witness ==
    /\ pc = IdlePc
    /\ call.op = "adc_await_conversion_completed"
    /\ call.ret = "void"
    /\ call.periph = <<"DMA_GetIrqFlag", "yield", "DMA_GetIrqFlag">>
    /\ adc[call.a].initialized
    /\ adc[call.a].flag

\* C2: adc_await_conversion_completed has no timeout: on an initialized device
\* a call made while a conversion is in flight (or already completed)
\* eventually returns, given that the hardware finishes what was started; a
\* call made while the flag is clear and no conversion is in flight never
\* returns; and it never returns while the flag is clear.
C2_AwaitTerminatesIffCompleted ==
    /\ \A d \in Devices :
         (pc = AwaitPc(d) /\ adc[d].initialized /\ (adc[d].converting \/ adc[d].flag))
            ~> (pc = IdlePc)
    /\ [][\A d \in Devices :
            (pc = AwaitPc(d) /\ ~adc[d].flag /\ ~adc[d].converting) =>
               (pc' = AwaitPc(d) /\ ~adc'[d].flag /\ ~adc'[d].converting)
         ]_vars
    /\ [][\A d \in Devices : (pc = AwaitPc(d) /\ pc' = IdlePc) => adc[d].flag]_vars

\* C2 witness: a call that can never return (flag clear, nothing in flight)
\* is spinning in the loop
C2_Witness ==
    /\ pc.op = "await"
    /\ adc[pc.dev].initialized
    /\ ~adc[pc.dev].flag
    /\ ~adc[pc.dev].converting
    /\ call.periph = <<"DMA_GetIrqFlag", "yield">>

\* the state is left alone and the firmware is stopped by an assertion
AssertionStopped ==
    /\ halted'
    /\ call'.ret = "PANIC"
    /\ call'.periph = <<>>
    /\ UNCHANGED <<gpio, adc, hist, pc>>

\* C3: in a debug build the five ADC functions that require an initialized
\* device fail an assertion on an uninitialized one, and adc_enable_channel,
\* adc_disable_channel (initialized device) and adc_conversion_read_result
\* fail an assertion on a channel id >= channel_count; the assertion comes
\* before any peripheral call or read of conversion_results, so nothing
\* changes and conversion_results is never indexed out of range.
C3_DebugAssertions ==
    /\ [][\A d \in Devices :
            (debug /\ ~adc[d].initialized /\
               (\/ \E c \in ChannelArgs, t \in SAMPLE_TIMES : Call_adc_enable_channel(d, c, t)
                \/ Call_adc_start_conversion(d)
                \/ Call_adc_is_conversion_completed(d)
                \/ Call_adc_await_conversion_completed(d)
                \/ \E c \in ChannelArgs, v \in SAMPLES : Call_adc_conversion_read_result(d, c, v)))
            => AssertionStopped
         ]_vars
    /\ [][\A d \in Devices :
            (debug /\ adc[d].initialized /\
               (\E c \in InvalidChannelArgs :
                  \/ \E t \in SAMPLE_TIMES : Call_adc_enable_channel(d, c, t)
                  \/ Call_adc_disable_channel(d, c)
                  \/ \E v \in SAMPLES : Call_adc_conversion_read_result(d, c, v)))
            => AssertionStopped
         ]_vars
    /\ [](debug /\ call.op = "adc_conversion_read_result" /\ call.periph # <<>>
            => call.b \in DOMAIN adc[call.a].conversion_results)

\* C3 witness: a debug build stopped in adc_conversion_read_result called with
\* an invalid channel id on an initialized device
C3_Witness ==
    /\ debug
    /\ halted
    /\ call.op = "adc_conversion_read_result"
    /\ adc[call.a].initialized
    /\ call.b \in InvalidChannelArgs

\* C4: pinMode on a valid pin with a mode other than INPUT, INPUT_PULLUP,
\* INPUT_ANALOG, OUTPUT hits the invalid-pin-mode assertion (reported in a
\* debug build) and calls neither GPIO_SetFunc nor GPIO_Init: the pin's mode
\* and pull-up are the same after the call as before it.
C4_InvalidModeKeepsPinConfig ==
    [][\A p \in ValidPins, m \in ModeArgs \ ValidModes, c \in PortConfigs :
         pinMode(p, m, c) =>
            /\ gpio' = gpio
            /\ \A i \in DOMAIN call'.periph : call'.periph[i] \notin {"GPIO_SetFunc", "GPIO_Init"}
            /\ (debug => halted' /\ call'.ret = "PANIC")
      ]_vars

\* C4 witness: after pinMode with an invalid mode, the pin still has the
\* (non-reset) configuration it was given before
C4_Witness ==
    /\ call.op = "pinMode"
    /\ call.a \in ValidPins
    /\ call.b \notin ValidModes
    /\ gpio[call.a].enPinMode = "Pin_Mode_Out"

\* C5: for every valid pin and every mode m of INPUT, INPUT_PULLUP,
\* INPUT_ANALOG, OUTPUT, whatever the pin's configuration was, getPinMode(pin)
\* after pinMode(pin, m) returns m; and getPinMode only ever returns one of
\* INPUT, INPUT_PULLUP, INPUT_ANALOG, OUTPUT, INPUT_FLOATING.
C5_PinModeRoundTrip ==
    /\ [](call.op = "pinMode" /\ ~halted /\ call.a \in ValidPins /\ call.b \in ValidModes
            => getPinMode_switch(GPIO_GetConfig(gpio[call.a])) = call.b)
    /\ [][\A p \in ValidPins :
            (call.op = "pinMode" /\ ~halted /\ call.a = p /\ call.b \in ValidModes /\ getPinMode(p))
               => call'.ret = call.b
         ]_vars
    /\ [](call.op = "getPinMode" /\ ~halted => call.ret \in ReportedModes)

\* C5 witness: getPinMode on a valid pin reports a mode that only an earlier
\* pinMode can have set (pins start as plain inputs)
C5_Witness ==
    /\ call.op = "getPinMode"
    /\ call.a \in ValidPins
    /\ call.ret = "INPUT_ANALOG"

\* C6: in a release build every pin operation given a pin number
\* >= BOARD_NR_GPIO_PINS changes no state and calls no GPIO or ADC function:
\* pinMode and digitalWrite have no effect, digitalRead returns LOW and
\* getPinMode returns INPUT_FLOATING.
C6_ReleaseInvalidPinNoEffect ==
    [][\A p \in InvalidPinArgs :
         /\ (~debug /\ (\E m \in ModeArgs, c \in PortConfigs : pinMode(p, m, c))) =>
               (UNCHANGED <<gpio, adc, hist, halted, pc>> /\ call'.periph = <<>> /\ call'.ret = "void")
         /\ (~debug /\ (\E v \in {"LOW", "HIGH"} : digitalWrite(p, v))) =>
               (UNCHANGED <<gpio, adc, hist, halted, pc>> /\ call'.periph = <<>> /\ call'.ret = "void")
         /\ (~debug /\ (\E l \in {"LOW", "HIGH"} : digitalRead(p, l))) =>
               (UNCHANGED <<gpio, adc, hist, halted, pc>> /\ call'.periph = <<>> /\ call'.ret = "LOW")
         /\ (~debug /\ getPinMode(p)) =>
               (UNCHANGED <<gpio, adc, hist, halted, pc>> /\ call'.periph = <<>>
                  /\ call'.ret = "INPUT_FLOATING")
      ]_vars

\* C6 witness: a release build has run digitalRead on an invalid pin
C6_Witness ==
    /\ ~debug
    /\ ~halted
    /\ call.op = "digitalRead"
    /\ call.a \in InvalidPinArgs
    /\ call.ret = "LOW"

\* C7: adc_device_init is idempotent per device: the first call runs the ADC
\* and DMA initialisation once and sets state.initialized; every later call
\* does nothing (no peripheral call, the completion flag, the enabled channels
\* and conversion_results stay as they are); state.initialized is never reset.
C7_DeviceInitIdempotent ==
    /\ [](\A d \in Devices :
            /\ adc[d].periphInits <= 1
            /\ adc[d].initialized <=> adc[d].periphInits = 1)
    /\ [][\A d \in Devices :
            /\ (adc[d].initialized => adc'[d].initialized)
            /\ ((~adc[d].initialized /\ Call_adc_device_init(d)) =>
                  /\ adc'[d].initialized
                  /\ adc'[d].periphInits = 1
                  /\ \A e \in Devices \ {d} : adc'[e] = adc[e])
            /\ ((adc[d].initialized /\ Call_adc_device_init(d)) =>
                  /\ UNCHANGED <<gpio, adc, hist, halted, pc>>
                  /\ call'.periph = <<>>)
         ]_vars

\* C7 witness: a later adc_device_init made no peripheral call and left a set
\* completion flag and an enabled channel alone
C7_Witness ==
    /\ call.op = "adc_device_init"
    /\ call.periph = <<>>
    /\ adc[call.a].flag
    /\ adc[call.a].channels # {}
    /\ adc[call.a].periphInits = 1

\* C8: in a debug build, whatever pinMode and ADC API calls were made, a device
\* that is not initialized has no enabled channel; and adc_disable_channel on
\* an uninitialized device returns without a peripheral call and changes nothing.
C8_UninitializedHasNoChannel ==
    /\ [](debug => \A d \in Devices : ~adc[d].initialized => adc[d].channels = {})
    /\ [][\A d \in Devices, c \in ChannelArgs :
            (~adc[d].initialized /\ Call_adc_disable_channel(d, c)) =>
               /\ UNCHANGED <<gpio, adc, hist, halted, pc>>
               /\ call'.periph = <<>>
               /\ call'.ret = "void"
         ]_vars

\* C8 witness: a debug build refused adc_enable_channel on an uninitialized
\* device, which still has no channel
C8_Witness ==
    /\ debug
    /\ halted
    /\ call.op = "adc_enable_channel"
    /\ call.b \in 0 .. (ChannelCount - 1)
    /\ ~adc[call.a].initialized
    /\ adc[call.a].channels = {}

\* adc_start_conversion clears the flag, then starts the conversion;
\* adc_conversion_read_result clears the flag and returns
\* conversion_results[channel], which it does not modify
FlagProtocol ==
    [][\A d \in Devices :
         /\ (Call_adc_start_conversion(d) /\ ~halted') =>
               /\ call'.periph = <<"DMA_ClearIrqFlag", "ADC_StartConvert">>
               /\ ~adc'[d].flag
               /\ adc'[d].converting
         /\ \A c \in 0 .. (ChannelCount - 1) :
               ((\E v \in SAMPLES : Call_adc_conversion_read_result(d, c, v)) /\ ~halted') =>
                  /\ call'.periph = <<"DMA_ClearIrqFlag", "conversion_results">>
                  /\ ~adc'[d].flag
                  /\ adc'[d].conversion_results = adc[d].conversion_results
                  /\ call'.ret = ToString(adc[d].conversion_results[c])
      ]_vars

\* the runs in which every adc_start_conversion came after the previous
\* conversion's transfer had completed
Disciplined(d) == ~hist[d].overlapped

\* the flag, when set, was raised by a transfer that completed after the
\* latest adc_start_conversion
NoStaleCompletion ==
    \A d \in Devices : (Disciplined(d) /\ adc[d].flag) => hist[d].flagFresh

\* C9 (as stated): after any adc_conversion_read_result the flag stays clear
\* until a newly started conversion completes, i.e. a set flag was raised by a
\* conversion started after the latest adc_conversion_read_result.
C9_FlagOnlyFromConversionStartedAfterRead ==
    \A d \in Devices : (Disciplined(d) /\ adc[d].flag) => hist[d].flagAfterRead

\* C9 (amended): adc_start_conversion clears the flag before it starts the
\* conversion; adc_conversion_read_result clears it and returns
\* conversion_results[channel] unmodified; when starts do not overlap, a set
\* flag was raised by a transfer completed after the latest start; and after
\* adc_conversion_read_result the flag stays clear until a conversion
\* completes that was started after the read or was still in flight when the
\* result was read.
C9_CompletionFlagProtocol ==
    /\ FlagProtocol
    /\ []NoStaleCompletion
    /\ [](\A d \in Devices :
            (Disciplined(d) /\ adc[d].flag) =>
               (hist[d].flagAfterRead \/ hist[d].readInFlight))

\* C9 witness: the flag is set again after adc_conversion_read_result by the
\* conversion that was in flight when the result was read
C9_Witness ==
    \E d \in Devices :
        /\ Disciplined(d)
        /\ adc[d].flag
        /\ ~hist[d].flagAfterRead
        /\ hist[d].readInFlight
        /\ hist[d].flagFresh

====
